---- MODULE Spec2Model ----
(***************************************************************************)
(* A model of frank_jwt (src/lib.rs): the HS256 token encoder, the decoder *)
(* and the verification chain.                                             *)
(*                                                                         *)
(* A Rust String / &str / &[u8] is a sequence of bytes (0..255).  JSON     *)
(* text, base64url text and tokens are all such sequences, so that         *)
(* encoding, splitting, decoding and parsing are computed on the bytes.    *)
(***************************************************************************)
EXTENDS Integers, Sequences, FiniteSets, TLC

(***************************************************************************)
(* Bytes and text                                                          *)
(***************************************************************************)

\* The printable ASCII characters, code 32 (space) to 126 (~), in order
\* (code 96, the grave accent, is written out as a word).
Ascii ==
  << " ", "!", "\"", "#", "$", "%", "&", "'", "(", ")", "*", "+", ",", "-",
     ".", "/", "0", "1", "2", "3", "4", "5", "6", "7", "8", "9", ":", ";",
     "<", "=", ">", "?", "@", "A", "B", "C", "D", "E", "F", "G", "H", "I",
     "J", "K", "L", "M", "N", "O", "P", "Q", "R", "S", "T", "U", "V", "W",
     "X", "Y", "Z", "[", "\\", "]", "^", "_", "GRAVE", "a", "b", "c", "d", "e",
     "f", "g", "h", "i", "j", "k", "l", "m", "n", "o", "p", "q", "r", "s",
     "t", "u", "v", "w", "x", "y", "z", "{", "|", "}", "~" >>

\* The byte of each printable ASCII character.
AsciiCode ==
  [c \in {Ascii[i] : i \in 1..Len(Ascii)} |->
     31 + (CHOOSE i \in 1..Len(Ascii) : Ascii[i] = c)]

Ch(c) == AsciiCode[c]

\* str::as_bytes of a literal, written as a tuple of one-character strings.
B(cs) == [i \in 1..Len(cs) |-> Ch(cs[i])]

Bytes == 0..255

\* The concatenation of the byte strings ss[lo], ..., ss[hi], by halves.
RECURSIVE ConcatRange(_, _, _)
ConcatRange(ss, lo, hi) ==
  IF lo > hi THEN << >>
  ELSE IF lo = hi THEN ss[lo]
  ELSE LET mid == (lo + hi) \div 2
       IN ConcatRange(ss, lo, mid) \o ConcatRange(ss, mid + 1, hi)

Concat(ss) == ConcatRange(ss, 1, Len(ss))

\* f[lo] + ... + f[hi], by halves.
RECURSIVE SumRange(_, _, _)
SumRange(f, lo, hi) ==
  IF lo > hi THEN 0
  ELSE IF lo = hi THEN f[lo]
  ELSE LET mid == (lo + hi) \div 2
       IN SumRange(f, lo, mid) + SumRange(f, mid + 1, hi)

\* s[from..to], empty when from > to.
Slice(s, from, to) == IF from > to THEN << >> ELSE SubSeq(s, from, to)

\* u8 bit operations, bit by bit.
RECURSIVE BitXor(_, _)
BitXor(x, y) ==
  IF x = 0 /\ y = 0 THEN 0
  ELSE (((x % 2) + (y % 2)) % 2) + 2 * BitXor(x \div 2, y \div 2)

RECURSIVE BitOr(_, _)
BitOr(x, y) ==
  IF x = 0 /\ y = 0 THEN 0
  ELSE (IF (x % 2) = 1 \/ (y % 2) = 1 THEN 1 ELSE 0)
         + 2 * BitOr(x \div 2, y \div 2)

\* Byte-wise lexicographic order of two strings (Ord for String, the key
\* order of TreeMap<String, _>): at the first position where they differ a
\* has the smaller byte, or a ends there and b does not.
StrLess(a, b) ==
  \E i \in 1..Len(b) :
    /\ \A j \in 1..(i - 1) : j <= Len(a) /\ a[j] = b[j]
    /\ (i > Len(a) \/ a[i] < b[i])

(***************************************************************************)
(* base64 (serialize::base64, URL_SAFE: '-' and '_', no padding)           *)
(***************************************************************************)

URLSAFE_CHARS ==
  B(<< "A", "B", "C", "D", "E", "F", "G", "H", "I", "J", "K", "L", "M", "N",
       "O", "P", "Q", "R", "S", "T", "U", "V", "W", "X", "Y", "Z", "a", "b",
       "c", "d", "e", "f", "g", "h", "i", "j", "k", "l", "m", "n", "o", "p",
       "q", "r", "s", "t", "u", "v", "w", "x", "y", "z", "0", "1", "2", "3",
       "4", "5", "6", "7", "8", "9", "-", "_" >>)

Sextet(n, k) == URLSAFE_CHARS[((n \div (64 ^ k)) % 64) + 1]

\* bytes.to_base64(base64::URL_SAFE): three bytes give four characters; a
\* last group of one or two bytes gives two or three, and no '=' is added.
\* Character i of the output is sextet (i - 1) % 4 of group (i - 1) / 4.
base64_url_encode(bytes) ==
  LET n == Len(bytes)
      rest == n % 3
      outLen == 4 * (n \div 3) + (IF rest = 0 THEN 0 ELSE rest + 1)
      At(k) == IF k <= n THEN bytes[k] ELSE 0
      Group(g) == At(3 * g + 1) * 65536 + At(3 * g + 2) * 256 + At(3 * g + 3)
  IN [i \in 1..outLen |-> Sextet(Group((i - 1) \div 4), 3 - ((i - 1) % 4))]

\* The value of one base64 character: both alphabets are read ('+' or '-'
\* is 62, '/' or '_' is 63); -1 for CR and LF (skipped), -2 for '=', -3 for
\* any other byte (InvalidBase64Byte).
B64Value(c) ==
  IF c >= Ch("A") /\ c <= Ch("Z") THEN c - 65
  ELSE IF c >= Ch("a") /\ c <= Ch("z") THEN c - 71
  ELSE IF c >= Ch("0") /\ c <= Ch("9") THEN c + 4
  ELSE IF c = Ch("+") \/ c = Ch("-") THEN 62
  ELSE IF c = Ch("/") \/ c = Ch("_") THEN 63
  ELSE IF c = 13 \/ c = 10 THEN -1
  ELSE IF c = Ch("=") THEN -2
  ELSE -3

\* input.from_base64(): [ok, v], ok = FALSE for Err(FromBase64Error).
\* The first loop reads up to the first '=', skipping CR and LF and failing
\* on any other byte outside the alphabets; the second loop lets only '=',
\* CR and LF follow.  Every four characters give three bytes; two or three
\* left over give one or two bytes (their spare low bits are not looked
\* at); one left over is InvalidBase64Length.
from_base64(s) ==
  LET eqs == {i \in 1..Len(s) : s[i] = Ch("=")}
      cut == IF eqs = {} THEN Len(s) + 1
             ELSE CHOOSE i \in eqs : \A j \in eqs : i <= j
      body == Slice(s, 1, cut - 1)
      tailOk == \A i \in cut..Len(s) : s[i] = Ch("=") \/ s[i] = 13 \/ s[i] = 10
      IsSextet(c) == B64Value(c) >= 0
      chars == SelectSeq(body, IsSextet)
      m == Len(chars)
      modulus == m % 4
      outLen == 3 * (m \div 4) + (IF modulus = 0 THEN 0 ELSE modulus - 1)
      At(k) == IF k <= m THEN B64Value(chars[k]) ELSE 0
      Group(g) == At(4 * g + 1) * 262144 + At(4 * g + 2) * 4096
                  + At(4 * g + 3) * 64 + At(4 * g + 4)
  IN IF (\E i \in 1..Len(body) : B64Value(body[i]) = -3) \/ ~tailOk
        \/ modulus = 1
     THEN [ok |-> FALSE, v |-> << >>]
     ELSE [ok |-> TRUE,
           v |-> [i \in 1..outLen |->
                    (Group((i - 1) \div 3) \div (256 ^ (2 - ((i - 1) % 3)))) % 256]]

(***************************************************************************)
(* UTF-8 (str::from_utf8)                                                  *)
(***************************************************************************)

IsCont(c) == c >= 128 /\ c <= 191

\* The length of the character a byte starts: 0 for a byte that starts none.
CharLen(c) ==
  IF c < 128 THEN 1
  ELSE IF c >= 194 /\ c <= 223 THEN 2
  ELSE IF c >= 224 /\ c <= 239 THEN 3
  ELSE IF c >= 240 /\ c <= 244 THEN 4
  ELSE 0

\* How many continuation bytes follow position i directly (4 for more).
ContRun(s, i) ==
  Cardinality({k \in 1..4 : \A q \in 1..k : i + q <= Len(s) /\ IsCont(s[i + q])})

\* Whether the bytes are well-formed UTF-8: the first byte starts a
\* character, and every byte that starts one is followed by exactly the
\* continuation bytes its character needs, the first of them in range.
ValidUtf8(s) ==
  /\ (Len(s) > 0 => ~IsCont(s[1]))
  /\ \A i \in 1..Len(s) :
       ~IsCont(s[i]) =>
         /\ CharLen(s[i]) > 0
         /\ ContRun(s, i) = CharLen(s[i]) - 1
         /\ (s[i] = 224 => s[i + 1] >= 160)
         /\ (s[i] = 237 => s[i + 1] <= 159)
         /\ (s[i] = 240 => s[i + 1] >= 144)
         /\ (s[i] = 244 => s[i + 1] <= 143)

\* str::from_utf8(bytes): Some(the same bytes as a &str) or None.
from_utf8(bytes) == [ok |-> ValidUtf8(bytes), v |-> bytes]

\* The UTF-8 bytes of the code point cp (String::push of a char).
Utf8Of(cp) ==
  IF cp < 128 THEN << cp >>
  ELSE IF cp < 2048 THEN << 192 + (cp \div 64), 128 + (cp % 64) >>
  ELSE IF cp < 65536 THEN
    << 224 + (cp \div 4096), 128 + ((cp \div 64) % 64), 128 + (cp % 64) >>
  ELSE << 240 + (cp \div 262144), 128 + ((cp \div 4096) % 64),
          128 + ((cp \div 64) % 64), 128 + (cp % 64) >>

\* StrSlice::is_whitespace: every character is white space (true of "").
\* Only the one-byte white space characters are told apart; the others
\* (U+0085, U+00A0, ...) are bytes from_base64 rejects, so no signing input
\* holds them.
IsWs(c) == c = 32 \/ (c >= 9 /\ c <= 13)

is_whitespace(s) == \A i \in 1..Len(s) : IsWs(s[i])

(***************************************************************************)
(* JSON (serialize::json).  A Json value is [t, v]:                        *)
(*   "String"  v the bytes        "Object"  v a function from keys to Json *)
(*   "Number"  v its text         "List"    v a sequence of Json           *)
(*   "Boolean" v TRUE or FALSE    "Null"    v << >>                        *)
(* An Object is a TreeMap<String, Json>: it keeps one value per key and    *)
(* iterates in the order of the keys.                                      *)
(***************************************************************************)

JString(s) == [t |-> "String", v |-> s]

JObject(m) == [t |-> "Object", v |-> m]

\* The keys of a TreeMap in iteration order: ascending, byte by byte.
SortedKeys(S) ==
  [i \in 1..Cardinality(S) |->
     CHOOSE k \in S : Cardinality({o \in S : StrLess(o, k)}) = i - 1]

\* TreeMap::insert: the new value replaces the one the key had.
TreeInsert(m, k, val) ==
  [x \in DOMAIN m \cup {k} |-> IF x = k THEN val ELSE m[x]]

\* json::escape_str: the string between quotes, with the quote, the
\* backslash and \b \f \n \r \t escaped.
EscapeByte(c) ==
  IF c = Ch("\"") THEN B(<< "\\", "\"" >>)
  ELSE IF c = Ch("\\") THEN B(<< "\\", "\\" >>)
  ELSE IF c = 8 THEN B(<< "\\", "b" >>)
  ELSE IF c = 12 THEN B(<< "\\", "f" >>)
  ELSE IF c = 10 THEN B(<< "\\", "n" >>)
  ELSE IF c = 13 THEN B(<< "\\", "r" >>)
  ELSE IF c = 9 THEN B(<< "\\", "t" >>)
  ELSE << c >>

EscapeBytes(s) == Concat([i \in 1..Len(s) |-> EscapeByte(s[i])])

escape_str(s) == << Ch("\"") >> \o EscapeBytes(s) \o << Ch("\"") >>

\* Json::to_string: the compact encoding, an object's members in key order.
RECURSIVE JsonToString(_)
JsonToString(j) ==
  IF j.t = "String" THEN escape_str(j.v)
  ELSE IF j.t = "Object" THEN
    LET keys == SortedKeys(DOMAIN j.v)
        Member(i) == (IF i > 1 THEN << Ch(",") >> ELSE << >>)
                     \o escape_str(keys[i]) \o << Ch(":") >>
                     \o JsonToString(j.v[keys[i]])
    IN << Ch("{") >> \o Concat([i \in 1..Len(keys) |-> Member(i)])
                     \o << Ch("}") >>
  ELSE IF j.t = "List" THEN
    LET Item(i) == (IF i > 1 THEN << Ch(",") >> ELSE << >>)
                   \o JsonToString(j.v[i])
    IN << Ch("[") >> \o Concat([i \in 1..Len(j.v) |-> Item(i)])
                     \o << Ch("]") >>
  ELSE IF j.t = "Boolean" THEN
    (IF j.v THEN B(<< "t", "r", "u", "e" >>) ELSE B(<< "f", "a", "l", "s", "e" >>))
  ELSE IF j.t = "Null" THEN B(<< "n", "u", "l", "l" >>)
  ELSE j.v

\* json::from_str, a recursive-descent parser.  A parse step gives
\* [ok, v, i]: whether it succeeded, the value, and the next position.
PFail == [ok |-> FALSE, v |-> << >>, i |-> 0]

POk(val, next) == [ok |-> TRUE, v |-> val, i |-> next]

\* Parser::parse_whitespace: skips ' ', \n, \t and \r.
RECURSIVE SkipWs(_, _)
SkipWs(s, i) ==
  IF i <= Len(s) /\ (s[i] = 32 \/ s[i] = 10 \/ s[i] = 9 \/ s[i] = 13)
  THEN SkipWs(s, i + 1) ELSE i

IsDigit(c) == c >= Ch("0") /\ c <= Ch("9")

\* The position after the digits that start at i.
RECURSIVE SkipDigits(_, _)
SkipDigits(s, i) ==
  IF i <= Len(s) /\ IsDigit(s[i]) THEN SkipDigits(s, i + 1) ELSE i

HexVal(c) ==
  IF IsDigit(c) THEN c - Ch("0")
  ELSE IF c >= Ch("a") /\ c <= Ch("f") THEN c - Ch("a") + 10
  ELSE IF c >= Ch("A") /\ c <= Ch("F") THEN c - Ch("A") + 10
  ELSE -1

\* Parser::decode_hex_escape: the four hex digits at i, or -1.
Hex4(s, i) ==
  IF i + 3 > Len(s) \/ \E k \in 0..3 : HexVal(s[i + k]) < 0 THEN -1
  ELSE HexVal(s[i]) * 4096 + HexVal(s[i + 1]) * 256
       + HexVal(s[i + 2]) * 16 + HexVal(s[i + 3])

\* Parser::parse_str from position i, just after the opening quote, with
\* the bytes read so far.
RECURSIVE ParseStr(_, _, _)
ParseStr(s, i, acc) ==
  IF i > Len(s) THEN PFail
  ELSE IF s[i] = Ch("\"") THEN POk(acc, i + 1)
  ELSE IF s[i] # Ch("\\") THEN ParseStr(s, i + 1, Append(acc, s[i]))
  ELSE IF i + 1 > Len(s) THEN PFail
  ELSE LET e == s[i + 1] IN
    IF e = Ch("\"") \/ e = Ch("\\") \/ e = Ch("/")
      THEN ParseStr(s, i + 2, Append(acc, e))
    ELSE IF e = Ch("b") THEN ParseStr(s, i + 2, Append(acc, 8))
    ELSE IF e = Ch("f") THEN ParseStr(s, i + 2, Append(acc, 12))
    ELSE IF e = Ch("n") THEN ParseStr(s, i + 2, Append(acc, 10))
    ELSE IF e = Ch("r") THEN ParseStr(s, i + 2, Append(acc, 13))
    ELSE IF e = Ch("t") THEN ParseStr(s, i + 2, Append(acc, 9))
    ELSE IF e = Ch("u") THEN
      LET n1 == Hex4(s, i + 2) IN
      IF n1 < 0 THEN PFail
      ELSE IF n1 >= 56320 /\ n1 <= 57343 THEN PFail
      ELSE IF n1 >= 55296 /\ n1 <= 56319 THEN
        IF i + 7 > Len(s) \/ s[i + 6] # Ch("\\") \/ s[i + 7] # Ch("u")
        THEN PFail
        ELSE LET n2 == Hex4(s, i + 8) IN
          IF n2 < 56320 \/ n2 > 57343 THEN PFail
          ELSE ParseStr(s, i + 12,
                        acc \o Utf8Of(65536 + (n1 - 55296) * 1024 + (n2 - 56320)))
      ELSE ParseStr(s, i + 6, acc \o Utf8Of(n1))
    ELSE PFail

\* Parser::parse_number: '-'? ('0' | [1-9][0-9]*) ('.' [0-9]+)?
\* ([eE] [+-]? [0-9]+)?.  The value keeps the text of the number.
ParseNumber(s, i) ==
  LET i1 == IF i <= Len(s) /\ s[i] = Ch("-") THEN i + 1 ELSE i
      i2 == IF i1 > Len(s) \/ ~IsDigit(s[i1]) THEN 0
            ELSE IF s[i1] = Ch("0")
              THEN (IF i1 + 1 <= Len(s) /\ IsDigit(s[i1 + 1]) THEN 0 ELSE i1 + 1)
            ELSE SkipDigits(s, i1)
      i3 == IF i2 = 0 THEN 0
            ELSE IF i2 <= Len(s) /\ s[i2] = Ch(".")
              THEN (IF SkipDigits(s, i2 + 1) = i2 + 1 THEN 0
                    ELSE SkipDigits(s, i2 + 1))
            ELSE i2
      i4 == IF i3 = 0 THEN 0
            ELSE IF i3 <= Len(s) /\ (s[i3] = Ch("e") \/ s[i3] = Ch("E"))
              THEN LET j == IF i3 + 1 <= Len(s)
                               /\ (s[i3 + 1] = Ch("+") \/ s[i3 + 1] = Ch("-"))
                            THEN i3 + 2 ELSE i3 + 1
                   IN IF SkipDigits(s, j) = j THEN 0 ELSE SkipDigits(s, j)
            ELSE i3
  IN IF i4 = 0 THEN PFail
     ELSE POk([t |-> "Number", v |-> Slice(s, i, i4 - 1)], i4)

\* Whether the literal word lit stands at position i.
HasWord(s, i, lit) ==
  i + Len(lit) - 1 <= Len(s) /\ Slice(s, i, i + Len(lit) - 1) = lit

RECURSIVE ParseValue(_, _)
RECURSIVE ParseMembers(_, _, _)
RECURSIVE ParseItems(_, _, _)

\* A parsed string as a Json value.
StringValue(r) == IF r.ok THEN POk(JString(r.v), r.i) ELSE PFail

\* A list from position j, after '[' and white space.
ListFrom(s, j) ==
  IF j <= Len(s) /\ s[j] = Ch("]")
  THEN POk([t |-> "List", v |-> << >>], j + 1)
  ELSE ParseItems(s, j, << >>)

\* An object from position j, after '{' and white space.
ObjectFrom(s, j) ==
  IF j <= Len(s) /\ s[j] = Ch("}")
  THEN POk(JObject(<< >>), j + 1)
  ELSE ParseMembers(s, j, << >>)

\* Parser::parse_value at position i (white space already skipped).
ParseValue(s, i) ==
  IF i > Len(s) THEN PFail
  ELSE IF s[i] = Ch("n") THEN
    (IF HasWord(s, i, B(<< "n", "u", "l", "l" >>))
     THEN POk([t |-> "Null", v |-> << >>], i + 4) ELSE PFail)
  ELSE IF s[i] = Ch("t") THEN
    (IF HasWord(s, i, B(<< "t", "r", "u", "e" >>))
     THEN POk([t |-> "Boolean", v |-> TRUE], i + 4) ELSE PFail)
  ELSE IF s[i] = Ch("f") THEN
    (IF HasWord(s, i, B(<< "f", "a", "l", "s", "e" >>))
     THEN POk([t |-> "Boolean", v |-> FALSE], i + 5) ELSE PFail)
  ELSE IF IsDigit(s[i]) \/ s[i] = Ch("-") THEN ParseNumber(s, i)
  ELSE IF s[i] = Ch("\"") THEN StringValue(ParseStr(s, i + 1, << >>))
  ELSE IF s[i] = Ch("[") THEN ListFrom(s, SkipWs(s, i + 1))
  ELSE IF s[i] = Ch("{") THEN ObjectFrom(s, SkipWs(s, i + 1))
  ELSE PFail

\* After a member of an object, at position e: ',' and the next member, or
\* '}'.  m holds the members read so far.
MemberEnd(s, m, e) ==
  IF e > Len(s) THEN PFail
  ELSE IF s[e] = Ch(",") THEN ParseMembers(s, SkipWs(s, e + 1), m)
  ELSE IF s[e] = Ch("}") THEN POk(JObject(m), e + 1)
  ELSE PFail

\* The value val of the member k has been parsed (a repeated key keeps its
\* last value).
MemberValue(s, m, k, val) ==
  IF ~val.ok THEN PFail
  ELSE MemberEnd(s, TreeInsert(m, k, val.v), SkipWs(s, val.i))

\* After the key k of a member, at position c: ':' and the value.
MemberColon(s, m, k, c) ==
  IF c > Len(s) \/ s[c] # Ch(":") THEN PFail
  ELSE MemberValue(s, m, k, ParseValue(s, SkipWs(s, c + 1)))

\* The key k of a member has been parsed.
MemberKey(s, m, k) ==
  IF ~k.ok THEN PFail ELSE MemberColon(s, m, k.v, SkipWs(s, k.i))

\* The members of an object from position i, where a key must start.
ParseMembers(s, i, m) ==
  IF i > Len(s) \/ s[i] # Ch("\"") THEN PFail
  ELSE MemberKey(s, m, ParseStr(s, i + 1, << >>))

\* After an item of a list, at position e: ',' and the next item, or ']'.
ItemEnd(s, l, e) ==
  IF e > Len(s) THEN PFail
  ELSE IF s[e] = Ch(",") THEN ParseItems(s, SkipWs(s, e + 1), l)
  ELSE IF s[e] = Ch("]") THEN POk([t |-> "List", v |-> l], e + 1)
  ELSE PFail

\* The item val of a list has been parsed.
ItemValue(s, l, val) ==
  IF ~val.ok THEN PFail
  ELSE ItemEnd(s, Append(l, val.v), SkipWs(s, val.i))

\* The items of a list from position i, where a value must start.
ParseItems(s, i, l) == ItemValue(s, l, ParseValue(s, i))

\* The value at the top has been parsed: only white space may follow.
TopValue(s, r) ==
  IF r.ok /\ SkipWs(s, r.i) > Len(s)
  THEN [ok |-> TRUE, v |-> r.v] ELSE [ok |-> FALSE, v |-> << >>]

\* json::from_str(s): one value, white space around it, nothing after it.
\* [ok, v], ok = FALSE for Err(ParserError).
json_from_str(s) == TopValue(s, ParseValue(s, SkipWs(s, 1)))

(***************************************************************************)
(* The MAC (rust_crypto::hmac::Hmac over Sha256)                           *)
(***************************************************************************)

\* The number of bytes of a MAC in the model (HS256 gives 32).
MacLen == 3

\* Hmac::new(Sha256::new(), key), input(message), result().code(): the MAC
\* is an external primitive; the model keeps what the code relies on, a
\* byte string of fixed length that is a function of the key and the
\* message (byte j weighs every byte of both by its position).
Hmac(key, message) ==
  LET K(j) == SumRange([i \in 1..Len(key) |-> key[i] * (i + j)], 1, Len(key))
      M(j) == SumRange([i \in 1..Len(message) |-> message[i] * (i * j + 1)],
                       1, Len(message))
  IN [j \in 1..MacLen |-> (K(j) * 7 + M(j) + j * 17) % 256]

(***************************************************************************)
(* Encoding                                                                *)
(***************************************************************************)

Dot == << Ch(".") >>

typ_key == B(<< "t", "y", "p" >>)

alg_key == B(<< "a", "l", "g" >>)

exp_key == B(<< "e", "x", "p" >>)

\* impl ToJson for JwtHeader: typ, then alg, are inserted in a TreeMap.
JwtHeader_to_json(header) ==
  JObject(TreeInsert(TreeInsert(<< >>, typ_key, JString(header.typ)),
                     alg_key, JString(header.alg)))

\* payload.into_iter().map(|(k, v)| (k, v.to_json())).collect() wrapped in
\* Json::Object.
payload_to_json(payload) ==
  JObject([k \in DOMAIN payload |-> JString(payload[k])])

\* The header segment as it would be with the members in insertion order.
HeaderSegmentInsertionOrder ==
  base64_url_encode(B(<< "{", "\"", "t", "y", "p", "\"", ":", "\"", "J", "W",
                         "T", "\"", ",", "\"", "a", "l", "g", "\"", ":", "\"",
                         "H", "S", "2", "5", "6", "\"", "}" >>))

get_signing_input_insertion_order(payload) ==
  HeaderSegmentInsertionOrder \o Dot
    \o base64_url_encode(JsonToString(payload_to_json(payload)))

get_signing_input(payload) ==
  LET header == [alg |-> B(<< "H", "S", "2", "5", "6" >>),
                 typ |-> B(<< "J", "W", "T" >>)]
      encoded_header == base64_url_encode(JsonToString(JwtHeader_to_json(header)))
      encoded_payload == base64_url_encode(JsonToString(payload_to_json(payload)))
  IN encoded_header \o Dot \o encoded_payload

sign_hmac256(signing_input, key) ==
  base64_url_encode(Hmac(key, signing_input))

encode(payload, key) ==
  LET signing_input == get_signing_input(payload)
  IN signing_input \o Dot \o sign_hmac256(signing_input, key)

(***************************************************************************)
(* Decoding                                                                *)
(***************************************************************************)

\* jwt.split_str("."): the segments between the dots, one more than there
\* are dots.
split_str(s) ==
  LET dots == {i \in 1..Len(s) : s[i] = Ch(".")}
      n == Cardinality(dots) + 1
      DotAt(k) == CHOOSE p \in dots : Cardinality({q \in dots : q < p}) = k - 1
      First(k) == IF k = 1 THEN 1 ELSE DotAt(k - 1) + 1
      Last(k) == IF k = n THEN Len(s) ELSE DotAt(k) - 1
  IN [k \in 1..n |-> Slice(s, First(k), Last(k))]

\* json_to_tree: the members of an object as strings; [ok, v], ok = FALSE
\* where the code reaches unreachable!() (a value that is not an object, a
\* member that is not a string).
json_to_tree(input) ==
  IF input.t # "Object" THEN [ok |-> FALSE, v |-> << >>]
  ELSE IF \E k \in DOMAIN input.v : input.v[k].t # "String"
    THEN [ok |-> FALSE, v |-> << >>]
  ELSE [ok |-> TRUE, v |-> [k \in DOMAIN input.v |-> input.v[k].v]]

\* base64_to_json (inside decode_header_and_payload): three unwraps in a
\* row; [ok, v], ok = FALSE where one of them panics.
base64_to_json(input) ==
  LET bytes == from_base64(input)
  IN IF ~bytes.ok THEN [ok |-> FALSE, v |-> << >>]
     ELSE IF ~from_utf8(bytes.v).ok THEN [ok |-> FALSE, v |-> << >>]
     ELSE json_from_str(bytes.v)

\* The signing input rebuilt from the parsed segments instead of copied.
signing_input_reserialized(header_segment, payload_segment) ==
  base64_url_encode(JsonToString(base64_to_json(header_segment).v)) \o Dot
    \o base64_url_encode(JsonToString(base64_to_json(payload_segment).v))

\* format!("{}.{}", header_segment, payload_segment) in decoded_segments.
signing_input_of(header_segment, payload_segment) ==
  header_segment \o Dot \o payload_segment

\* The accumulator of secure_compare after the pairs from i on.
RECURSIVE CompareFold(_, _, _, _)
CompareFold(a, b, i, res) ==
  IF i > Len(a) THEN res
  ELSE CompareFold(a, b, i + 1, BitOr(res, BitXor(a[i], b[i])))

\* secure_compare with `res = x ^ y` in place of `res |= x ^ y`.
secure_compare_last_byte(a, b) ==
  IF Len(a) # Len(b) THEN FALSE
  ELSE IF Len(a) = 0 THEN TRUE
  ELSE BitXor(a[Len(a)], b[Len(b)]) = 0

secure_compare(a, b) ==
  IF Len(a) # Len(b) THEN FALSE
  ELSE CompareFold(a, b, 1, 0) = 0

verify_signature_fn(signing_input, key, signature_bytes) ==
  secure_compare(signature_bytes, Hmac(key, signing_input))

\* The value of the digits of s from position i on, after acc.
RECURSIVE DigitsValue(_, _, _)
DigitsValue(s, i, acc) ==
  IF i > Len(s) THEN acc
  ELSE DigitsValue(s, i + 1, acc * 10 + (s[i] - Ch("0")))

\* from_str::<i64>(s): an optional '-' and at least one digit, nothing
\* else; [ok, v], ok = FALSE for None.  (Values stay far from the i64
\* limits in the model: the strings it reads have at most four digits.)
from_str_i64(s) ==
  LET neg == Len(s) > 0 /\ s[1] = Ch("-")
      d == IF neg THEN Tail(s) ELSE s
  IN IF Len(d) = 0 \/ \E i \in 1..Len(d) : ~IsDigit(d[i])
     THEN [ok |-> FALSE, v |-> 0]
     ELSE [ok |-> TRUE,
           v |-> IF neg THEN 0 - DigitsValue(d, 1, 0) ELSE DigitsValue(d, 1, 0)]

(***************************************************************************)
(* The inputs of the model                                                 *)
(***************************************************************************)

key1 == B(<< "k", "e", "y", "1" >>)

key2 == B(<< "k", "e", "y", "2" >>)

val1 == B(<< "v", "a", "l", "1" >>)

\* A TreeMap<String, String> with the one entry k -> v.
One(k, v) == [x \in {k} |-> v]

\* The claim sets given to encode: none, plain claims, a value that needs
\* escaping, and exp claims before, at and after the clock, not a number,
\* empty and blank.
ClaimSets ==
  { << >>,
    [x \in {key1, key2} |-> IF x = key1 THEN val1 ELSE B(<< "a", "\"", "b" >>)],
    [x \in {exp_key, key1} |-> IF x = key1 THEN val1 ELSE B(<< "7", "0", "0" >>)],
    One(exp_key, B(<< "1", "0", "0", "0" >>)),
    One(exp_key, B(<< "2", "0", "0", "0" >>)),
    One(exp_key, B(<< "a", "b", "c" >>)),
    One(exp_key, << >>),
    One(exp_key, B(<< " " >>)) }

\* The keys (secrets) of the callers.
Keys == { B(<< "s", "e", "c", "r", "e", "t", "1", "2", "3" >>), B(<< "k" >>) }

\* The values time::get_time().sec may return.
Times == { 1000, 2500 }

\* Header texts a foreign issuer may sign: the members in the other order,
\* and a JSON string in place of the object.
IssuedHeaders ==
  { B(<< "{", "\"", "t", "y", "p", "\"", ":", "\"", "J", "W", "T", "\"", ",",
         "\"", "a", "l", "g", "\"", ":", "\"", "H", "S", "2", "5", "6", "\"",
         "}" >>),
    B(<< "\"", "J", "W", "T", "\"" >>) }

\* Payload texts a foreign issuer may sign: an object with white space and
\* unsorted keys, a list, an object with a number for exp, JSON cut short,
\* and a byte that is not UTF-8.
IssuedPayloads ==
  { B(<< "{", " ", "\"", "b", "\"", ":", "\"", "1", "\"", ",", " ", "\"", "a",
         "\"", " ", ":", " ", "\"", "2", "\"", " ", "}" >>),
    B(<< "[", "1", "]" >>),
    B(<< "{", "\"", "e", "x", "p", "\"", ":", "7", "0", "0", "}" >>),
    B(<< "{", "\"", "a", "\"" >>),
    << 255 >> }

\* The bits of a signature byte a tamperer flips.
TamperBits == 0..7

\* What a tamperer does to the segments of a token other than flipping a
\* bit of the signature.
TamperKinds ==
  { "drop_signature", "add_segment", "empty_signature", "empty_payload",
    "bad_base64" }

\* The byte strings secure_compare is applied to on its own.
MaxCompareLen == 2

CompareBytes == { 0, 1, 255 }

CompareInputs ==
  UNION { [1..n -> CompareBytes] : n \in 0..MaxCompareLen }

(***************************************************************************)
(* State                                                                   *)
(***************************************************************************)

VARIABLES
  origin,     \* how the token came to be: "none", "encode", "issue", "tamper"
  claims,     \* the claim set given to encode
  signKey,    \* the key the token was signed with
  tamper,     \* what the tamperer did: "none", "sigbit" or one of TamperKinds
  jwt,        \* the token
  pc,         \* where the call of decode stands
  key, verify_flag, verify_expiration_flag,      \* decode's arguments
  raw_segments,                                  \* decoded_segments' locals
  header_json, payload_json, signature, signing_input,
  res,        \* `res` of decode: "unset", "Ok" or the error verify returned
  checks,     \* the checks verify has run, each with its outcome
  now,        \* the clock value verify_expiration read (-1: not read)
  result,     \* what decode gave: nothing yet, Ok, Err or a panic
  cmp         \* a call of secure_compare on its own: its inputs and result

vars ==
  << origin, claims, signKey, tamper, jwt, pc, key, verify_flag,
     verify_expiration_flag, raw_segments, header_json, payload_json,
     signature, signing_input, res, checks, now, result, cmp >>

tokenVars == << origin, claims, signKey, tamper, jwt >>

argVars == << key, verify_flag, verify_expiration_flag >>

localVars ==
  << raw_segments, header_json, payload_json, signature, signing_input >>

NoResult == [kind |-> "none", err |-> "", header |-> << >>, payload |-> << >>]

Ok(header, payload) ==
  [kind |-> "Ok", err |-> "", header |-> header, payload |-> payload]

Err(e) == [kind |-> "Err", err |-> e, header |-> << >>, payload |-> << >>]

\* The thread panics (unwrap on None or Err, unreachable!()): decode does
\* not return.
Panic(where) ==
  [kind |-> "panic", err |-> where, header |-> << >>, payload |-> << >>]

NoCompare == [a |-> << >>, b |-> << >>, res |-> "none"]

Init ==
  /\ origin = "none" /\ claims = << >> /\ signKey = << >>
  /\ tamper = "none" /\ jwt = << >>
  /\ pc = "idle"
  /\ key = << >> /\ verify_flag = FALSE /\ verify_expiration_flag = FALSE
  /\ raw_segments = << >>
  /\ header_json = [t |-> "Null", v |-> << >>]
  /\ payload_json = [t |-> "Null", v |-> << >>]
  /\ signature = << >> /\ signing_input = << >>
  /\ res = "unset" /\ checks = << >> /\ now = -1
  /\ result = NoResult
  /\ cmp = NoCompare

(***************************************************************************)
(* Where tokens come from                                                  *)
(***************************************************************************)

\* A caller encodes a claim set: encode(payload, key).
Encode ==
  /\ pc = "idle" /\ origin = "none"
  /\ \E payload \in ClaimSets, k \in Keys :
       /\ jwt' = encode(payload, k)
       /\ claims' = payload
       /\ signKey' = k
  /\ origin' = "encode"
  /\ UNCHANGED << tamper, pc, argVars, localVars, res, checks, now, result, cmp >>

\* Another issuer signs a header text and a payload text of its own making
\* with the shared key: the MAC is over the token's own first two segments.
Issue ==
  /\ pc = "idle" /\ origin = "none"
  /\ \E h \in IssuedHeaders, p \in IssuedPayloads, k \in Keys :
       LET input == base64_url_encode(h) \o Dot \o base64_url_encode(p)
       IN /\ jwt' = input \o Dot \o base64_url_encode(Hmac(k, input))
          /\ signKey' = k
  /\ origin' = "issue"
  /\ UNCHANGED << claims, tamper, pc, argVars, localVars, res, checks, now,
                  result, cmp >>

\* Somebody flips one bit of the signature of an encoded token.
TamperSignatureBit ==
  /\ pc = "idle" /\ origin = "encode"
  /\ \E i \in 1..MacLen, bit \in TamperBits :
       LET segs == split_str(jwt)
           sig == from_base64(segs[3]).v
           flipped == [sig EXCEPT ![i] = BitXor(@, 2 ^ bit)]
       IN jwt' = segs[1] \o Dot \o segs[2] \o Dot \o base64_url_encode(flipped)
  /\ origin' = "tamper" /\ tamper' = "sigbit"
  /\ UNCHANGED << claims, signKey, pc, argVars, localVars, res, checks, now,
                  result, cmp >>

\* Somebody changes the segments of an encoded token.
TamperSegments ==
  /\ pc = "idle" /\ origin = "encode"
  /\ \E kind \in TamperKinds :
       LET segs == split_str(jwt) IN
       /\ tamper' = kind
       /\ jwt' =
            IF kind = "drop_signature" THEN segs[1] \o Dot \o segs[2]
            ELSE IF kind = "add_segment" THEN jwt \o Dot \o segs[3]
            ELSE IF kind = "empty_signature" THEN segs[1] \o Dot \o segs[2] \o Dot
            ELSE IF kind = "empty_payload" THEN segs[1] \o Dot \o Dot \o segs[3]
            ELSE segs[1] \o Dot \o segs[2] \o << Ch("!") >> \o Dot \o segs[3]
  /\ origin' = "tamper"
  /\ UNCHANGED << claims, signKey, pc, argVars, localVars, res, checks, now,
                  result, cmp >>

(***************************************************************************)
(* decode, step by step.                                                   *)
(*                                                                         *)
(* The source names values that no binding in scope gives.  The model      *)
(* reads each such name as the binding of that name nearest in the call    *)
(* chain: `verify(...)` in decode is the function verify; the calls        *)
(* verify_issuer(), verify_expiration() and verify_audience() pass the     *)
(* payload verify received; `signing_input` inside the three checks is     *)
(* verify's; `exp` in verify_expiration is the exp claim of the payload;   *)
(* `payload` in decode's Ok is json_to_tree(payload_json).  `iss` and      *)
(* `aud` are bound nowhere: whether they are empty is left open.  verify   *)
(* calls its four checks as statements and drops what they return, so the  *)
(* only error it yields is the JWTInvalid of its first lines; `!res` in    *)
(* decode is read as "verify gave an error".                               *)
(***************************************************************************)

Finish(r) == result' = r /\ pc' = "done"

\* decode(jwt, key, verify, verify_expiration) is called.
Decode ==
  /\ pc = "idle" /\ origin # "none"
  /\ \E k \in Keys, v \in BOOLEAN, ve \in BOOLEAN :
       /\ key' = k
       /\ verify_flag' = v
       /\ verify_expiration_flag' = ve
  /\ pc' = "decoded_segments"
  /\ UNCHANGED << tokenVars, localVars, res, checks, now, result, cmp >>

\* decoded_segments, the split and the three raw_segments.next().unwrap().
decoded_segments ==
  /\ pc = "decoded_segments"
  /\ LET segs == split_str(jwt) IN
     IF Len(segs) < 3
     THEN /\ Finish(Panic("raw_segments.next().unwrap()"))
          /\ UNCHANGED raw_segments
     ELSE /\ raw_segments' = SubSeq(segs, 1, 3)
          /\ pc' = "decode_header_and_payload"
          /\ UNCHANGED result
  /\ UNCHANGED << tokenVars, argVars, header_json, payload_json, signature,
                  signing_input, res, checks, now, cmp >>

\* decode_header_and_payload(header_segment, payload_segment).
decode_header_and_payload ==
  /\ pc = "decode_header_and_payload"
  /\ LET h == base64_to_json(raw_segments[1])
         p == base64_to_json(raw_segments[2])
     IN IF ~h.ok THEN
          /\ Finish(Panic("base64_to_json(header_segment)"))
          /\ UNCHANGED << header_json, payload_json >>
        ELSE IF ~p.ok THEN
          /\ Finish(Panic("base64_to_json(payload_segment)"))
          /\ UNCHANGED << header_json, payload_json >>
        ELSE
          /\ header_json' = h.v
          /\ payload_json' = p.v
          /\ pc' = "decode_signature"
          /\ UNCHANGED result
  /\ UNCHANGED << tokenVars, argVars, raw_segments, signature, signing_input,
                  res, checks, now, cmp >>

\* The rest of decoded_segments: the signature bytes when verify is set,
\* and the signing input; then decode's `if verify`.
decode_signature ==
  /\ pc = "decode_signature"
  /\ LET sig == from_base64(raw_segments[3]) IN
     IF verify_flag /\ ~sig.ok
     THEN /\ Finish(Panic("crypto_segment.from_base64().unwrap()"))
          /\ UNCHANGED << signature, signing_input >>
     ELSE /\ signature' = IF verify_flag THEN sig.v ELSE << >>
          /\ signing_input' = signing_input_of(raw_segments[1], raw_segments[2])
          /\ pc' = IF verify_flag THEN "verify" ELSE "decode_return"
          /\ UNCHANGED result
  /\ UNCHANGED << tokenVars, argVars, raw_segments, header_json, payload_json,
                  res, checks, now, cmp >>

\* verify, its first lines: the structural check.
verify ==
  /\ pc = "verify"
  /\ IF signing_input = << >> \/ is_whitespace(signing_input)
     THEN res' = "JWTInvalid" /\ pc' = "decode_check_res"
     ELSE res' = res /\ pc' = "verify_signature"
  /\ UNCHANGED << tokenVars, argVars, localVars, checks, now, result, cmp >>

Ran(check, out) == checks' = Append(checks, [check |-> check, out |-> out])

\* verify_signature(signing_input, key, signature_bytes); the bool it
\* returns is dropped.
verify_signature ==
  /\ pc = "verify_signature"
  /\ Ran("signature",
         IF verify_signature_fn(signing_input, key, signature)
         THEN "ok" ELSE "SignatureInvalid")
  /\ pc' = "verify_issuer"
  /\ UNCHANGED << tokenVars, argVars, localVars, res, now, result, cmp >>

\* verify_issuer(); what it returns is dropped.
verify_issuer ==
  /\ pc = "verify_issuer"
  /\ \E iss_is_empty \in BOOLEAN :
       Ran("issuer",
           IF iss_is_empty \/ is_whitespace(signing_input)
           THEN "IssuerInvalid" ELSE "ok")
  /\ pc' = "verify_expiration"
  /\ UNCHANGED << tokenVars, argVars, localVars, res, now, result, cmp >>

\* verify_expiration(); it runs whatever decode's verify_expiration flag
\* is, its unwraps panic, and what it returns is dropped.
verify_expiration ==
  /\ pc = "verify_expiration"
  /\ LET payload == json_to_tree(payload_json) IN
     IF ~payload.ok THEN
       /\ Finish(Panic("json_to_tree: unreachable!()"))
       /\ UNCHANGED << checks, now >>
     ELSE IF exp_key \notin DOMAIN payload.v THEN
       /\ Ran("expiration", "ok")
       /\ pc' = "verify_audience"
       /\ UNCHANGED << result, now >>
     ELSE IF payload.v[exp_key] = << >> \/ is_whitespace(signing_input) THEN
       /\ Ran("expiration", "ExpirationInvalid")
       /\ pc' = "verify_audience"
       /\ UNCHANGED << result, now >>
     ELSE LET exp == from_str_i64(payload.v[exp_key]) IN
       IF ~exp.ok THEN
         /\ Finish(Panic("from_str(exp).unwrap()"))
         /\ UNCHANGED << checks, now >>
       ELSE \E t \in Times :
         /\ now' = t
         /\ Ran("expiration", IF exp.v <= t THEN "SignatureExpired" ELSE "ok")
         /\ pc' = "verify_audience"
         /\ UNCHANGED result
  /\ UNCHANGED << tokenVars, argVars, localVars, res, cmp >>

\* verify_audience(); what it returns is dropped, and verify ends without
\* an error.
verify_audience ==
  /\ pc = "verify_audience"
  /\ \E aud_is_empty \in BOOLEAN :
       Ran("audience",
           IF aud_is_empty \/ is_whitespace(signing_input)
           THEN "AudienceInvalid" ELSE "ok")
  /\ res' = "Ok"
  /\ pc' = "decode_check_res"
  /\ UNCHANGED << tokenVars, argVars, localVars, now, result, cmp >>

\* decode: if !res { return Err(Error::SignatureInvalid) }.
decode_check_res ==
  /\ pc = "decode_check_res"
  /\ IF res # "Ok"
     THEN Finish(Err("SignatureInvalid"))
     ELSE pc' = "decode_return" /\ UNCHANGED result
  /\ UNCHANGED << tokenVars, argVars, localVars, res, checks, now, cmp >>

\* decode: let header = json_to_tree(header_json); Ok((header, payload)).
decode_return ==
  /\ pc = "decode_return"
  /\ LET header == json_to_tree(header_json)
         payload == json_to_tree(payload_json)
     IN IF ~header.ok \/ ~payload.ok
        THEN Finish(Panic("json_to_tree: unreachable!()"))
        ELSE Finish(Ok(header.v, payload.v))
  /\ UNCHANGED << tokenVars, argVars, localVars, res, checks, now, cmp >>

Next ==
  \/ Encode
  \/ Issue
  \/ TamperSignatureBit
  \/ TamperSegments
  \/ Decode
  \/ decoded_segments
  \/ decode_header_and_payload
  \/ decode_signature
  \/ verify
  \/ verify_signature
  \/ verify_issuer
  \/ verify_expiration
  \/ verify_audience
  \/ decode_check_res
  \/ decode_return

Spec == Init /\ [][Next]_vars

(***************************************************************************)
(* secure_compare on its own                                               *)
(***************************************************************************)

InitCompare ==
  /\ origin = "none" /\ claims = << >> /\ signKey = << >>
  /\ tamper = "none" /\ jwt = << >>
  /\ pc = "secure_compare"
  /\ key = << >> /\ verify_flag = FALSE /\ verify_expiration_flag = FALSE
  /\ raw_segments = << >>
  /\ header_json = [t |-> "Null", v |-> << >>]
  /\ payload_json = [t |-> "Null", v |-> << >>]
  /\ signature = << >> /\ signing_input = << >>
  /\ res = "unset" /\ checks = << >> /\ now = -1
  /\ result = NoResult
  /\ \E a \in CompareInputs, b \in CompareInputs :
       cmp = [a |-> a, b |-> b, res |-> "none"]

\* secure_compare(a, b) is called.
SecureCompare ==
  /\ pc = "secure_compare"
  /\ cmp' = [cmp EXCEPT !.res = secure_compare(cmp.a, cmp.b)]
  /\ pc' = "compared"
  /\ UNCHANGED << tokenVars, argVars, localVars, res, checks, now, result >>

NextCompare == SecureCompare

SpecCompare == InitCompare /\ [][NextCompare]_vars

(***************************************************************************)
(* What the claims speak of                                                *)
(***************************************************************************)

Done == pc = "done"

Failed(e) == result.kind = "Err" /\ result.err = e

\* The token carries the MAC of its own first two segments under the key
\* decode is given.
SignedWithKey == origin \in {"encode", "issue"} /\ key = signKey

\* The positions of the dots of the token.
DotsOf(t) == {i \in 1..Len(t) : t[i] = Ch(".")}

\* Splitting the token on '.' gives exactly three segments, none empty:
\* two dots, neither at an end of the token, and not next to each other.
ThreeNonEmptySegments(t) ==
  /\ Cardinality(DotsOf(t)) = 2
  /\ \A i \in DotsOf(t) : i > 1 /\ i < Len(t) /\ (i + 1) \notin DotsOf(t)

\* The token up to its second dot, as received.
BeforeSecondDot(t) ==
  LET second == CHOOSE p \in DotsOf(t) :
                  Cardinality({q \in DotsOf(t) : q < p}) = 1
  IN Slice(t, 1, second - 1)

\* The header JSON of the token: its text up to the first dot, decoded.
HeaderText(t) ==
  LET first == CHOOSE p \in DotsOf(t) : \A q \in DotsOf(t) : p <= q
  IN from_base64(Slice(t, 1, first - 1)).v

\* The first position at which sub stands in s, 0 when it does nowhere.
IndexOf(sub, s) ==
  LET at == {i \in 1..(Len(s) - Len(sub) + 1) :
               Slice(s, i, i + Len(sub) - 1) = sub}
  IN IF at = {} THEN 0 ELSE CHOOSE i \in at : \A j \in at : i <= j

\* The header object every token of encode must carry.
ExpectedHeader ==
  [k \in {typ_key, alg_key} |->
     IF k = typ_key THEN B(<< "J", "W", "T" >>)
     ELSE B(<< "H", "S", "2", "5", "6" >>)]

\* The header text is the two-key object with typ = "JWT" and alg = "HS256".
HeaderIsTwoKeyObject(text) ==
  LET parsed == json_from_str(text)
  IN /\ parsed.ok
     /\ json_to_tree(parsed.v).ok
     /\ json_to_tree(parsed.v).v = ExpectedHeader

\* The encoded claim set has an exp claim, and whether it is an integer.
HasExp == origin = "encode" /\ exp_key \in DOMAIN claims

ExpIsInteger == HasExp /\ from_str_i64(claims[exp_key]).ok

\* The checks verify has run that failed.
FailedChecks == {i \in 1..Len(checks) : checks[i].out # "ok"}

\* The order in which verify is to run its checks.
CheckOrder == << "signature", "issuer", "expiration", "audience" >>

\* A check the caller of decode has enabled: the signature with verify,
\* the expiration with verify_expiration (decode has no parameter that
\* enables the issuer or the audience check).
Enabled(check) ==
  \/ check = "signature" /\ verify_flag
  \/ check = "expiration" /\ verify_expiration_flag

(***************************************************************************)
(* The claims                                                              *)
(***************************************************************************)

\* C1: round trip: decode(encode(C, K), K, verify = true,
\* check_expiration = false) succeeds and returns the claim set C.
C1_RoundTrip ==
  (Done /\ origin = "encode" /\ key = signKey /\ verify_flag
        /\ ~verify_expiration_flag)
    => (result.kind = "Ok" /\ result.payload = claims)

\* C2: tamper detection: a token of encode with one bit of its signature
\* bytes flipped makes decode with verify = true fail with SignatureInvalid.
C2_TamperDetected ==
  (Done /\ tamper = "sigbit" /\ key = signKey /\ verify_flag)
    => Failed("SignatureInvalid")

\* C3: secure_compare(a, b) is true if and only if a and b have the same
\* length and the same byte at every position.
C3_SecureCompare ==
  pc = "compared" =>
    (cmp.res <=> (/\ Len(cmp.a) = Len(cmp.b)
                  /\ \A i \in 1..Len(cmp.a) : cmp.a[i] = cmp.b[i]))

\* C3, witness: two inputs of equal length that differ in their first byte
\* only were compared, and the answer was false.
C3_Witness ==
  /\ pc = "compared"
  /\ Len(cmp.a) = MaxCompareLen /\ Len(cmp.b) = MaxCompareLen
  /\ cmp.a[1] # cmp.b[1]
  /\ \A i \in 2..MaxCompareLen : cmp.a[i] = cmp.b[i]
  /\ cmp.res = FALSE

\* C4: expiration: a validly signed token whose exp is an integer not after
\* the clock fails with SignatureExpired when decoded with verify = true and
\* check_expiration = true, and succeeds with check_expiration = false.
C4_Expiration ==
  (Done /\ origin = "encode" /\ key = signKey /\ verify_flag /\ ExpIsInteger
        /\ now # -1 /\ from_str_i64(claims[exp_key]).v <= now)
    => IF verify_expiration_flag THEN Failed("SignatureExpired")
       ELSE result.kind = "Ok"

\* C5: segment count: decode fails with JWTInvalid unless the token splits
\* on '.' into exactly three segments, none of them empty.
C5_SegmentCount ==
  (Done /\ ~ThreeNonEmptySegments(jwt)) => Failed("JWTInvalid")

\* C6: no input terminates the process: decode returns Ok or a typed Err,
\* and never returns claims when a check the caller enabled has failed.
C6_NoAbort ==
  Done =>
    /\ result.kind \in {"Ok", "Err"}
    /\ (result.kind = "Ok" =>
          \A i \in FailedChecks : ~Enabled(checks[i].check))

\* C7, as claimed: the header JSON of an encoded token is the two-key object
\* with typ = "JWT" and alg = "HS256" in which the key alg comes after the
\* key typ.
C7_AlgAfterTyp ==
  origin = "encode" =>
    LET text == HeaderText(jwt)
    IN /\ HeaderIsTwoKeyObject(text)
       /\ IndexOf(escape_str(alg_key), text) > IndexOf(escape_str(typ_key), text)

\* C7, as amended: the header JSON of an encoded token is the two-key
\* object with typ = "JWT" and alg = "HS256" in which the key alg comes
\* before the key typ (the keys are in ascending order).
C7_AlgBeforeTyp ==
  origin = "encode" =>
    LET text == HeaderText(jwt)
    IN /\ HeaderIsTwoKeyObject(text)
       /\ IndexOf(escape_str(alg_key), text) > 0
       /\ IndexOf(escape_str(alg_key), text) < IndexOf(escape_str(typ_key), text)

\* C7, witness: encode has produced a token, and decode has read it back.
C7_Witness == origin = "encode" /\ Done /\ result.kind = "Ok"

\* C8: validation order and short circuit: the checks run in the order
\* signature, issuer, expiration, audience; no check runs after one that
\* failed; and the error decode returns is that of the first failed check.
C8_OrderShortCircuit ==
  /\ \A i \in 1..Len(checks) : checks[i].check = CheckOrder[i]
  /\ \A i \in FailedChecks : i = Len(checks)
  /\ (Done /\ result.kind # "panic" /\ FailedChecks # {})
       => \E i \in FailedChecks :
            /\ \A j \in FailedChecks : i <= j
            /\ Failed(checks[i].out)

\* C9: malformed exp: with verify = true and check_expiration = true, a
\* validly signed token whose exp claim is not an integer (empty, blank or
\* not a number) makes decode fail with ExpirationInvalid.
C9_MalformedExp ==
  (Done /\ origin = "encode" /\ key = signKey /\ verify_flag
        /\ verify_expiration_flag /\ HasExp /\ ~ExpIsInteger)
    => Failed("ExpirationInvalid")

\* C10: signing input on decode: the string the MAC is recomputed over is
\* the token's first segment, a '.', and its second segment as received;
\* so a token that carries the MAC of its own first two segments passes the
\* signature check under the same key, whatever JSON the segments hold.
C10_SigningInput ==
  Len(checks) >= 1 =>
    /\ signing_input = BeforeSecondDot(jwt)
    /\ (SignedWithKey => checks[1].out = "ok")

\* C10, witness: the signature check passed on a token of another issuer
\* whose payload JSON is not what to_string would write.
C10_Witness ==
  /\ Len(checks) >= 1
  /\ origin = "issue" /\ key = signKey
  /\ checks[1].out = "ok"
  /\ JsonToString(payload_json) # from_base64(raw_segments[2]).v

====
